---- MODULE Spec2Model ----
(***************************************************************************)
(* Model of inputd's configuration loader, src/config.rs:                  *)
(* Config::load_from_file and the identifier resolvers it calls.           *)
(*                                                                         *)
(* A TOML value is a pair <<tag, payload>>; a TOML table is the sequence   *)
(* of its <<key, value>> pairs in the order `iter()` yields them, with     *)
(* pairwise distinct keys.  A Rust Option is <<>> (None) or <<x>>          *)
(* (Some(x)).  A string that the code inspects byte by byte (an absolute   *)
(* axis key) is the sequence of its characters.                            *)
(***************************************************************************)
EXTENDS Integers, Sequences, FiniteSets, TLC

VARIABLES
    doc,              \* the parsed toml document (line 194)
    pc,               \* position of load_from_file
    pos,              \* index of the top-level key being iterated (line 217)
    nth,              \* index in the current section's array (lines 221, 312, 489)
    device_filters,   \* IndexMap< String, DeviceFilter > (line 213)
    virtual_devices,  \* IndexMap< String, VirtualDevice > (line 214)
    scripts,          \* Vec< Script > (line 215)
    result,           \* what load_from_file returned: <<>> while running
    df_hist,          \* history: internal names inserted into device_filters, in order
    vd_hist,          \* history: internal names inserted into virtual_devices, in order
    call              \* a call of one of the free resolver functions: [fn, arg, ret]

vars == <<doc, pc, pos, nth, device_filters, virtual_devices, scripts, result,
          df_hist, vd_hist, call>>

----------------------------------------------------------------------------
(* Option< T > *)

None == <<>>

Some(x) == <<x>>

IsSome(o) == o # <<>>

Unwrap(o) == o[1]

unwrap_or(o, d) == IF o = <<>> THEN d ELSE o[1]

(* toml::Value *)

VStr(s) == <<"str", s>>

\* A toml integer is an i64.  The i64 w * 2^32 + n, with n a 32-bit signed
\* integer and w in {-1, 0, 1}, is the pair <<w, n>>: w = 0 for an integer
\* that fits 32 bits, w = 1 (w = -1) for one above (below) them.
I64(w, n) == <<w, n>>

VInt(i) == <<"int", I64(0, i)>>

VWide(w, n) == <<"int", I64(w, n)>>

VBool(b) == <<"bool", b>>

VArr(items) == <<"array", items>>

VTab(pairs) == <<"table", pairs>>

as_str(value) == IF value[1] = "str" THEN Some(value[2]) ELSE None

as_integer(value) == IF value[1] = "int" THEN Some(value[2]) ELSE None

as_bool(value) == IF value[1] = "bool" THEN Some(value[2]) ELSE None

as_array(value) == IF value[1] = "array" THEN Some(value[2]) ELSE None

as_table(value) == IF value[1] = "table" THEN Some(value[2]) ELSE None

----------------------------------------------------------------------------
(* Integer widths *)

U16Max == 65535

\* value >= 0 on an i64 (lines 66, 80, 94, 108)
I64Ge0(value) == value[1] > 0 \/ (value[1] = 0 /\ value[2] >= 0)

\* value <= bound on an i64, for a bound that fits 32 bits
I64Le(value, bound) == value[1] < 0 \/ (value[1] = 0 /\ value[2] <= bound)

\* `value as u16` (lines 67, 81, 95, 109): the low 16 bits (2^32 has none).
AsU16(value) == value[2] % (U16Max + 1)

\* TryIntoU16 as the cast `as u16`: the low 16 bits, never refused.
TryIntoU16_Wrapping(item) == Some(AsU16(item))

\* i64 -> u16 `try_into().ok()` (lines 251, 256, 261, 266, 280, 348, ...).
TryIntoU16(item) ==
    IF I64Ge0(item) /\ I64Le(item, U16Max) THEN Some(item[2]) ELSE None

\* i64 -> i32 `try_into().ok()` of the abs sub-table values (lines 405 .. 430).
TryIntoI32(item) == IF item[1] = 0 THEN Some(item[2]) ELSE None

----------------------------------------------------------------------------
(* Symbolic-name tables of the linux_input crate.  An identifier is        *)
(* <<"Sym", name>> for a named variant and <<"Other", code>> for           *)
(* Other( u16 ).                                                           *)

Sym(name) == <<"Sym", name>>

Other(code) == <<"Other", code>>

BusNames == {"USB", "BLUETOOTH"}

KeyNames == {"KEY_A", "BTN_LEFT"}

RelNames == {"REL_X", "REL_WHEEL"}

FfNames == {"FF_RUMBLE"}

AbsNames == {<<"X">>, <<"Y">>}

Bus_try_from_str(s) == IF s \in BusNames THEN Some(Sym(s)) ELSE None

Key_try_from_str(s) == IF s \in KeyNames THEN Some(Sym(s)) ELSE None

RelativeAxis_try_from_str(s) == IF s \in RelNames THEN Some(Sym(s)) ELSE None

ForceFeedback_try_from_str(s) == IF s \in FfNames THEN Some(Sym(s)) ELSE None

AbsoluteAxis_try_from_str(string) == IF string \in AbsNames THEN Some(Sym(string)) ELSE None

DeviceKind_try_from_str(string) ==
    IF string \in {"keyboard", "mouse", "gamepad"} THEN Some(string) ELSE None

DevicePreset_try_from_str(string) ==
    IF string \in {"keyboard", "mouse"} THEN Some(string) ELSE None

----------------------------------------------------------------------------
(* try_into_{bus,key,rel,ff}_value, lines 62-116 *)

try_into_bus_value(value) ==
    IF value[1] = "str" THEN Bus_try_from_str(value[2])
    ELSE IF value[1] = "int" THEN
        IF I64Ge0(value[2]) /\ I64Le(value[2], U16Max)
            THEN Some(Other(AsU16(value[2])))
            ELSE None
    ELSE None

\* lines 62-116 for keys, without `value >= 0` at line 80.
try_into_key_value_NoLowerBound(value) ==
    IF value[1] = "str" THEN Key_try_from_str(value[2])
    ELSE IF value[1] = "int" THEN
        IF I64Le(value[2], U16Max) THEN Some(Other(AsU16(value[2]))) ELSE None
    ELSE None

try_into_key_value(value) ==
    IF value[1] = "str" THEN Key_try_from_str(value[2])
    ELSE IF value[1] = "int" THEN
        IF I64Ge0(value[2]) /\ I64Le(value[2], U16Max)
            THEN Some(Other(AsU16(value[2])))
            ELSE None
    ELSE None

try_into_rel_value(value) ==
    IF value[1] = "str" THEN RelativeAxis_try_from_str(value[2])
    ELSE IF value[1] = "int" THEN
        IF I64Ge0(value[2]) /\ I64Le(value[2], U16Max)
            THEN Some(Other(AsU16(value[2])))
            ELSE None
    ELSE None

try_into_ff_value(value) ==
    IF value[1] = "str" THEN ForceFeedback_try_from_str(value[2])
    ELSE IF value[1] = "int" THEN
        IF I64Ge0(value[2]) /\ I64Le(value[2], U16Max)
            THEN Some(Other(AsU16(value[2])))
            ELSE None
    ELSE None

----------------------------------------------------------------------------
(* try_into_abs_s, lines 118-140 *)

DecDigits == <<"0", "1", "2", "3", "4", "5", "6", "7", "8", "9">>

LowerHex == <<"a", "b", "c", "d", "e", "f">>

UpperHex == <<"A", "B", "C", "D", "E", "F">>

\* char::to_digit( radix ): the digit's value, None for any other character.
to_digit(c, radix) ==
    IF \E i \in 1..10 : DecDigits[i] = c
        THEN Some((CHOOSE i \in 1..10 : DecDigits[i] = c) - 1)
    ELSE IF radix = 16 /\ \E i \in 1..6 : LowerHex[i] = c
        THEN Some((CHOOSE i \in 1..6 : LowerHex[i] = c) + 9)
    ELSE IF radix = 16 /\ \E i \in 1..6 : UpperHex[i] = c
        THEN Some((CHOOSE i \in 1..6 : UpperHex[i] = c) + 9)
    ELSE None

is_ascii_digit(byte) == \E i \in 1..10 : DecDigits[i] = byte

RECURSIVE FoldDigits(_, _, _)
\* checked_mul, then checked_add, of one digit
PushDigit(acc, radix, d) ==
    IF d = <<>> THEN None
    ELSE IF acc * radix > U16Max THEN None
    ELSE IF acc * radix + d[1] > U16Max THEN None
    ELSE Some(acc * radix + d[1])

\* The digit loop of u16::from_str_radix over the value so far in r.
FoldDigits(digits, radix, r) ==
    IF r = <<>> \/ digits = <<>> THEN r
    ELSE FoldDigits(Tail(digits), radix,
                    PushDigit(r[1], radix, to_digit(Head(digits), radix)))

\* u16::from_str_radix (and str::parse::< u16 > with radix 10): an optional
\* "+", then at least one digit, the value checked against the width.
u16_from_str_radix(src, radix) ==
    IF src = <<>> THEN None
    ELSE IF Head(src) = "+"
        THEN (IF Tail(src) = <<>> THEN None ELSE FoldDigits(Tail(src), radix, Some(0)))
        ELSE FoldDigits(src, radix, Some(0))

starts_with_0x(string) == Len(string) >= 2 /\ string[1] = "0" /\ string[2] = "x"

\* `if let Ok( axis ) = .. { return Some( AbsoluteAxis::Other( axis ) ) } else
\* { return None }`, lines 124-128 and 132-136
OtherAxis(parsed) == IF parsed = <<>> THEN None ELSE Some(Other(parsed[1]))

\* lines 123-139 with the remainder after "0x" parsed in radix 10.
NumericAxis_Decimal(string) ==
    IF string # <<>> /\ \A i \in 1..Len(string) : is_ascii_digit(string[i])
        THEN OtherAxis(u16_from_str_radix(string, 10))
    ELSE IF string # <<>> /\ starts_with_0x(string)
        THEN OtherAxis(u16_from_str_radix(SubSeq(string, 3, Len(string)), 10))
    ELSE None

\* lines 123-139, when the string is no symbolic name
NumericAxis(string) ==
    IF string # <<>> /\ \A i \in 1..Len(string) : is_ascii_digit(string[i])
        THEN OtherAxis(u16_from_str_radix(string, 10))
    ELSE IF string # <<>> /\ starts_with_0x(string)
        THEN OtherAxis(u16_from_str_radix(SubSeq(string, 3, Len(string)), 16))
    ELSE None

\* `if let Some( axis ) = .. { return Some( axis ) }`, lines 119-121
FirstSome(found, otherwise) == IF found # <<>> THEN found ELSE otherwise

try_into_abs_s(string) ==
    FirstSome(AbsoluteAxis_try_from_str(string), NumericAxis(string))

----------------------------------------------------------------------------
(* Result< T, io::Error > and the diagnostics.  A diagnostic is the        *)
(* format string of its format!() call with the arguments it is given.    *)

Ok(x) == <<"Ok", x>>

Err(error) == <<"Err", error>>

IsErr(r) == r[1] = "Err"

IsOk(r) == r[1] = "Ok"

\* The `?` operator: an Err is returned as it is, an Ok value goes on.
Try(r, Continue(_)) == IF r[1] = "Err" THEN r ELSE Continue(r[2])

\* Option::or_err, lines 200-211
or_err(option, error) == IF option = <<>> THEN Err(error) ELSE Ok(option[1])

Msg(fmt, args) == [fmt |-> fmt, args |-> args]

FmtNotArray == "\"{}\" is not an array"

FmtNotTable1 == "\"{}\" is not a table"

FmtNotTable2 == "\"{}.{}\" is not a table"

FmtNotTable3 == "\"{}.{}.{}\" is not a table"

FmtNotTable4 == "\"{}.{}.{}.{}\" is not a table"

FmtNotArray3 == "\"{}.{}.{}\" is not an array"

FmtNotString == "\"{}.{}.{}\" is not a string"

FmtNotStringQuoted == "\"{}.'{}'.{}\" is not a string"

FmtNotInteger == "\"{}.{}.{}\" is not an integer"

FmtOutOfRange == "\"{}.{}.{}\" is out of range"

FmtNotBoolean == "\"{}.{}.{}\" is not a boolean"

FmtInvalidValue == "\"{}.{}.{}\" has an invalid value"

FmtKeyInvalidValue == "key \"{}.{}.{}\" has an invalid value"

FmtInvalidItem == "\"{}.{}.{}\" has an invalid value: '{}'"

FmtInvalidAxis == "\"{}.{}.{}\" contains an invalid absolute axis name: '{}'"

FmtNotInteger5 == "\"{}.{}.{}.{}.{}\" is not an integer"

FmtOutOfRange5 == "\"{}.{}.{}.{}.{}\" is out of range"

FmtUnrecognized1 == "unrecognized key: \"{}\""

FmtUnrecognized3 == "unrecognized key: \"{}.{}.{}\""

FmtUnrecognized5 == "unrecognized key: \"{}.{}.{}.{}.{}\""

FmtMissingRef == "\"{}.{}\" is missing an 'ref'"

FmtMissingMinimum == "missing \"{}.{}.{}.{}.minimum\""

FmtMissingMaximum == "missing \"{}.{}.{}.{}.maximum\""

FmtMissingDevice == "missing \"{}.{}.device\""

FmtMissingScript == "missing \"{}.{}.script\""

FmtNoSuchFilter == "[[script]] refers to a non-existing device filter: \"{}\""

FmtSameName == "same name used as a device filter and a virtual device: \"{}\""

FmtNoSuchTarget == "[[virtual-device]]'s 'redirect-force-feedback-to' refers to a non-existing device filter: \"{}\""

----------------------------------------------------------------------------
(* indexmap::IndexMap: the entries in insertion order, keys distinct *)

contains_key(map, key) == \E i \in 1..Len(map) : map[i].key = key

IndexOf(map, key) == CHOOSE i \in 1..Len(map) : map[i].key = key

\* IndexMap::insert leaving the value of a key already present.
insert_KeepFirst(map, key, value) ==
    IF contains_key(map, key) THEN map
        ELSE Append(map, [key |-> key, value |-> value])

\* IndexMap::insert moving a key already present to the back.
insert_MoveToBack(map, key, value) ==
    Append(SelectSeq(map, LAMBDA entry : entry.key # key),
           [key |-> key, value |-> value])

\* IndexMap::insert: a new key is appended; an existing key keeps its
\* position and has its value replaced.
insert(map, key, value) ==
    IF contains_key(map, key)
        THEN [map EXCEPT ![IndexOf(map, key)] = [key |-> key, value |-> value]]
        ELSE Append(map, [key |-> key, value |-> value])

Keys(map) == [i \in 1..Len(map) |-> map[i].key]

Get(map, key) == map[IndexOf(map, key)].value

----------------------------------------------------------------------------
(* Property accessors shared by the sections *)

\* item.as_str().or_err( "... is not a string" ), lines 238, 242, 330, 343, 454
StringProperty(item, toplevel_key, n, property_name) ==
    or_err(as_str(item), Msg(FmtNotString, <<toplevel_key, n, property_name>>))

\* U16Property with the index of the first item in the path.
U16Property_FirstIndex(item, toplevel_key, n, property_name) ==
    Try(or_err(as_integer(item),
               Msg(FmtNotInteger, <<toplevel_key, 0, property_name>>)),
        LAMBDA i : or_err(TryIntoU16(i),
                          Msg(FmtOutOfRange, <<toplevel_key, 0, property_name>>)))

\* as_integer().or_err( .. )?, then try_into().ok().or_err( .. )?,
\* lines 250-251 (and 255, 260, 265, 279, 347, 352, 357, 362)
U16Property(item, toplevel_key, n, property_name) ==
    Try(or_err(as_integer(item),
               Msg(FmtNotInteger, <<toplevel_key, n, property_name>>)),
        LAMBDA i : or_err(TryIntoU16(i),
                          Msg(FmtOutOfRange, <<toplevel_key, n, property_name>>)))

\* try_into_bus_value( item ).or_err( .. ), lines 246, 339
BusProperty(item, toplevel_key, n, property_name) ==
    or_err(try_into_bus_value(item),
           Msg(FmtInvalidValue, <<toplevel_key, n, property_name>>))

\* lines 289-295 with `name` looked at before `ref`.
ResolveInternalName_NameFirst(internal_name, name) ==
    IF IsSome(name) THEN name
    ELSE IF IsSome(internal_name) THEN internal_name
    ELSE None

\* lines 289-295 and 463-469: `ref`, else `name`, else nothing
ResolveInternalName(internal_name, name) ==
    IF IsSome(internal_name) THEN internal_name
    ELSE IF IsSome(name) THEN name
    ELSE None

\* `r?` followed by `field = Some( item )`
Store(r, acc, field) ==
    IF r[1] = "Err" THEN r ELSE Ok([acc EXCEPT ![field] = Some(r[2])])

\* `r?` followed by `field = item`, for the Vec locals
StoreVec(r, acc, field) ==
    IF r[1] = "Err" THEN r ELSE Ok([acc EXCEPT ![field] = r[2]])

----------------------------------------------------------------------------
(* "device-filter", lines 219-309 *)

\* lines 224-233
DeviceFilterLocals ==
    [internal_name |-> None, name |-> None, bus |-> None, vendor |-> None,
     not_vendor |-> None, product |-> None, version |-> None, kind |-> None,
     exclusive |-> None, chmod |-> None]

\* One iteration of the loop at line 235: the match at lines 236-286.
DeviceFilterProperty(property_name, item, toplevel_key, n, acc) ==
    CASE property_name = "ref" ->
            Store(StringProperty(item, toplevel_key, n, property_name), acc, "internal_name")
      [] property_name = "name" ->
            Store(StringProperty(item, toplevel_key, n, property_name), acc, "name")
      [] property_name = "bus" ->
            Store(BusProperty(item, toplevel_key, n, property_name), acc, "bus")
      [] property_name \in {"vendor", "not_vendor", "product", "version", "chmod"} ->
            Store(U16Property(item, toplevel_key, n, property_name), acc, property_name)
      [] property_name = "kind" ->
            Store(Try(StringProperty(item, toplevel_key, n, property_name),
                      LAMBDA s : or_err(DeviceKind_try_from_str(s),
                                        Msg(FmtKeyInvalidValue,
                                            <<toplevel_key, n, property_name>>))),
                  acc, "kind")
      [] property_name = "exclusive" ->
            Store(or_err(as_bool(item),
                         Msg(FmtNotBoolean, <<toplevel_key, n, property_name>>)),
                  acc, "exclusive")
      [] OTHER ->
            Err(Msg(FmtUnrecognized3, <<toplevel_key, n, property_name>>))

RECURSIVE DeviceFilterProperties(_, _, _, _)
\* The loop at line 235 from the locals in r, left on the first error.
DeviceFilterProperties(props, toplevel_key, n, r) ==
    IF r[1] = "Err" \/ props = <<>> THEN r
    ELSE DeviceFilterProperties(Tail(props), toplevel_key, n,
            DeviceFilterProperty(Head(props)[1], Head(props)[2], toplevel_key, n, r[2]))

\* The struct literal at lines 297-307.
DeviceFilter(acc) ==
    [name |-> acc.name, bus |-> acc.bus, vendor |-> acc.vendor,
     not_vendor |-> acc.not_vendor, product |-> acc.product,
     version |-> acc.version, kind |-> acc.kind,
     exclusive |-> unwrap_or(acc.exclusive, FALSE), chmod |-> acc.chmod]

\* The body of the loop at line 221 up to the insert: Ok( [key, value] ) to
\* insert, or the error returned.
DeviceFilterItem(item, toplevel_key, n) ==
    Try(or_err(as_table(item), Msg(FmtNotTable2, <<toplevel_key, n>>)),
        LAMBDA props :
    Try(DeviceFilterProperties(props, toplevel_key, n, Ok(DeviceFilterLocals)),
        LAMBDA acc :
    Try(or_err(ResolveInternalName(acc.internal_name, acc.name),
               Msg(FmtMissingRef, <<toplevel_key, n>>)),
        LAMBDA internal_name :
    Ok([key |-> internal_name, value |-> DeviceFilter(acc)]))))

----------------------------------------------------------------------------
(* "virtual-device", lines 310-486 *)

\* lines 314-326
VirtualDeviceLocals ==
    [internal_name |-> None, preset |-> None, name |-> None, bus |-> None,
     vendor |-> None, product |-> None, version |-> None, chmod |-> None,
     key_bits |-> <<>>, rel_bits |-> <<>>, abs_bits |-> <<>>, ff_bits |-> <<>>,
     redirect_force_feedback_to |-> None]

\* The resolver of an array property: lines 370, 378, 386.
Resolve(property_name, item) ==
    CASE property_name = "keys" -> try_into_key_value(item)
      [] property_name = "rel" -> try_into_rel_value(item)
      [] property_name = "force-feedback" -> try_into_ff_value(item)

RECURSIVE ArrayItems(_, _, _, _, _)
\* The loops at lines 369-372, 377-380, 385-388 over the Vec in r.
ArrayItems(items, toplevel_key, n, property_name, r) ==
    IF r[1] = "Err" \/ items = <<>> THEN r
    ELSE ArrayItems(Tail(items), toplevel_key, n, property_name,
            Try(or_err(Resolve(property_name, Head(items)),
                       Msg(FmtInvalidItem,
                           <<toplevel_key, n, property_name, Head(items)>>)),
                LAMBDA bit : Ok(Append(r[2], bit))))

\* lines 366-389: `keys`, `rel`, `force-feedback`
ArrayProperty(item, toplevel_key, n, property_name) ==
    Try(or_err(as_array(item),
               Msg(FmtNotArray3, <<toplevel_key, n, property_name>>)),
        LAMBDA items : ArrayItems(items, toplevel_key, n, property_name, Ok(<<>>)))

\* lines 395-400
AxisLocals ==
    [initial_value |-> None, minimum |-> None, maximum |-> None,
     noise_threshold |-> None, deadzone |-> None, resolution |-> None]

\* The local a sub-property is stored in: the match arms at lines 403-432.
AxisLocalOf(subproperty_name) ==
    CASE subproperty_name = "initial-value" -> "initial_value"
      [] subproperty_name \in {"minimum", "min"} -> "minimum"
      [] subproperty_name \in {"maximum", "max"} -> "maximum"
      [] subproperty_name = "noise-threshold" -> "noise_threshold"
      [] subproperty_name = "deadzone" -> "deadzone"
      [] subproperty_name = "resolution" -> "resolution"

AxisSubproperties ==
    {"initial-value", "minimum", "min", "maximum", "max", "noise-threshold",
     "deadzone", "resolution"}

\* AxisSubproperty with the arm of line 434 leaving the key out.
AxisSubproperty_IgnoreUnknown(subproperty_name, item, path, acc) ==
    IF subproperty_name \notin AxisSubproperties
        THEN Ok(acc)
        ELSE Try(or_err(as_integer(item),
                        Msg(FmtNotInteger5, path \o <<subproperty_name>>)),
                 LAMBDA i :
             Try(or_err(TryIntoI32(i),
                        Msg(FmtOutOfRange5, path \o <<subproperty_name>>)),
                 LAMBDA v :
             Ok([acc EXCEPT ![AxisLocalOf(subproperty_name)] = Some(v)])))

\* One iteration of the loop at line 401: the match at lines 402-436.
AxisSubproperty(subproperty_name, item, path, acc) ==
    IF subproperty_name \notin AxisSubproperties
        THEN Err(Msg(FmtUnrecognized5, path \o <<subproperty_name>>))
        ELSE Try(or_err(as_integer(item),
                        Msg(FmtNotInteger5, path \o <<subproperty_name>>)),
                 LAMBDA i :
             Try(or_err(TryIntoI32(i),
                        Msg(FmtOutOfRange5, path \o <<subproperty_name>>)),
                 LAMBDA v :
             Ok([acc EXCEPT ![AxisLocalOf(subproperty_name)] = Some(v)])))

RECURSIVE AxisSubproperties_loop(_, _, _)
\* The loop at line 401 from the locals in r, left on the first error.
AxisSubproperties_loop(props, path, r) ==
    IF r[1] = "Err" \/ props = <<>> THEN r
    ELSE AxisSubproperties_loop(Tail(props), path,
            AxisSubproperty(Head(props)[1], Head(props)[2], path, r[2]))

\* lines 439-450 with initial_value defaulting to 0.
AbsoluteAxisBit_ZeroInitial(axis, acc, path) ==
    Try(or_err(acc.minimum, Msg(FmtMissingMinimum, path)), LAMBDA minimum :
    Try(or_err(acc.maximum, Msg(FmtMissingMaximum, path)), LAMBDA maximum :
    Ok([axis |-> axis,
        initial_value |-> unwrap_or(acc.initial_value, 0),
        minimum |-> minimum,
        maximum |-> maximum,
        deadzone |-> unwrap_or(acc.deadzone, 0),
        noise_threshold |-> unwrap_or(acc.noise_threshold, 0),
        resolution |-> unwrap_or(acc.resolution, 0)])))

\* lines 439-450 with maximum defaulting to 0 in place of line 440.
AbsoluteAxisBit_NoMaximumCheck(axis, acc, path) ==
    Try(or_err(acc.minimum, Msg(FmtMissingMinimum, path)), LAMBDA minimum :
    Ok([axis |-> axis,
        initial_value |-> unwrap_or(acc.initial_value, minimum),
        minimum |-> minimum,
        maximum |-> unwrap_or(acc.maximum, 0),
        deadzone |-> unwrap_or(acc.deadzone, 0),
        noise_threshold |-> unwrap_or(acc.noise_threshold, 0),
        resolution |-> unwrap_or(acc.resolution, 0)]))

\* lines 439-450: the mandatory bounds, then the record with its defaults.
AbsoluteAxisBit(axis, acc, path) ==
    Try(or_err(acc.minimum, Msg(FmtMissingMinimum, path)), LAMBDA minimum :
    Try(or_err(acc.maximum, Msg(FmtMissingMaximum, path)), LAMBDA maximum :
    Ok([axis |-> axis,
        initial_value |-> unwrap_or(acc.initial_value, minimum),
        minimum |-> minimum,
        maximum |-> maximum,
        deadzone |-> unwrap_or(acc.deadzone, 0),
        noise_threshold |-> unwrap_or(acc.noise_threshold, 0),
        resolution |-> unwrap_or(acc.resolution, 0)])))

\* One iteration of the loop at line 392 (lines 393-450): the record to push,
\* or the error returned.
AbsAxis(axis_name, item, path) ==
    Try(or_err(try_into_abs_s(axis_name), Msg(FmtInvalidAxis, path)), LAMBDA axis :
    Try(or_err(as_table(item), Msg(FmtNotTable4, path)), LAMBDA props :
    Try(AxisSubproperties_loop(props, path, Ok(AxisLocals)), LAMBDA acc :
    AbsoluteAxisBit(axis, acc, path))))

RECURSIVE AbsAxes(_, _, _, _, _)
\* The loop at line 392 over the abs_bits in r: every record is pushed
\* (line 442).
AbsAxes(axes, toplevel_key, n, property_name, r) ==
    IF r[1] = "Err" \/ axes = <<>> THEN r
    ELSE AbsAxes(Tail(axes), toplevel_key, n, property_name,
            Try(AbsAxis(Head(axes)[1], Head(axes)[2],
                        <<toplevel_key, n, property_name, Head(axes)[1]>>),
                LAMBDA bit : Ok(Append(r[2], bit))))

\* One iteration of the loop at line 327: the match at lines 328-460.
VirtualDeviceProperty(property_name, item, toplevel_key, n, acc) ==
    CASE property_name = "ref" ->
            Store(StringProperty(item, toplevel_key, n, property_name), acc, "internal_name")
      [] property_name = "preset" ->
            Store(Try(StringProperty(item, toplevel_key, n, property_name),
                      LAMBDA s : or_err(DevicePreset_try_from_str(s),
                                        Msg(FmtKeyInvalidValue,
                                            <<toplevel_key, n, property_name>>))),
                  acc, "preset")
      [] property_name = "bus" ->
            Store(BusProperty(item, toplevel_key, n, property_name), acc, "bus")
      [] property_name = "name" ->
            Store(StringProperty(item, toplevel_key, n, property_name), acc, "name")
      [] property_name \in {"vendor", "product", "version", "chmod"} ->
            Store(U16Property(item, toplevel_key, n, property_name), acc, property_name)
      [] property_name \in {"keys", "rel", "force-feedback"} ->
            StoreVec(ArrayProperty(item, toplevel_key, n, property_name), acc,
                     CASE property_name = "keys" -> "key_bits"
                       [] property_name = "rel" -> "rel_bits"
                       [] property_name = "force-feedback" -> "ff_bits")
      [] property_name = "abs" ->
            StoreVec(Try(or_err(as_table(item),
                                Msg(FmtNotTable3, <<toplevel_key, n, property_name>>)),
                         LAMBDA axes : AbsAxes(axes, toplevel_key, n, property_name,
                                               Ok(acc.abs_bits))),
                     acc, "abs_bits")
      [] property_name = "redirect-force-feedback-to" ->
            Store(StringProperty(item, toplevel_key, n, property_name), acc,
                  "redirect_force_feedback_to")
      [] OTHER ->
            Err(Msg(FmtUnrecognized3, <<toplevel_key, n, property_name>>))

RECURSIVE VirtualDeviceProperties(_, _, _, _)
\* The loop at line 327 from the locals in r, left on the first error.
VirtualDeviceProperties(props, toplevel_key, n, r) ==
    IF r[1] = "Err" \/ props = <<>> THEN r
    ELSE VirtualDeviceProperties(Tail(props), toplevel_key, n,
            VirtualDeviceProperty(Head(props)[1], Head(props)[2], toplevel_key, n, r[2]))

\* The struct literal at lines 471-484.
VirtualDevice(acc) ==
    [preset |-> acc.preset, name |-> acc.name, bus |-> acc.bus,
     vendor |-> acc.vendor, product |-> acc.product, version |-> acc.version,
     chmod |-> acc.chmod, key_bits |-> acc.key_bits, rel_bits |-> acc.rel_bits,
     abs_bits |-> acc.abs_bits, ff_bits |-> acc.ff_bits,
     redirect_force_feedback_to |-> acc.redirect_force_feedback_to]

\* The body of the loop at line 312 up to the insert.
VirtualDeviceItem(item, toplevel_key, n) ==
    Try(or_err(as_table(item), Msg(FmtNotTable2, <<toplevel_key, n>>)),
        LAMBDA props :
    Try(VirtualDeviceProperties(props, toplevel_key, n, Ok(VirtualDeviceLocals)),
        LAMBDA acc :
    Try(or_err(ResolveInternalName(acc.internal_name, acc.name),
               Msg(FmtMissingRef, <<toplevel_key, n>>)),
        LAMBDA internal_name :
    Ok([key |-> internal_name, value |-> VirtualDevice(acc)]))))

----------------------------------------------------------------------------
(* "script", lines 487-517 *)

\* One iteration of the loop at line 494: the match at lines 495-507.
ScriptProperty(property_name, item, toplevel_key, n, acc) ==
    IF property_name \notin {"device", "script"}
        THEN Err(Msg(FmtUnrecognized3, <<toplevel_key, n, property_name>>))
        ELSE Store(or_err(as_str(item),
                          Msg(FmtNotStringQuoted, <<toplevel_key, n, property_name>>)),
                   acc, IF property_name = "device" THEN "device" ELSE "code")

RECURSIVE ScriptProperties(_, _, _, _)
\* The loop at line 494 from the locals in r, left on the first error.
ScriptProperties(props, toplevel_key, n, r) ==
    IF r[1] = "Err" \/ props = <<>> THEN r
    ELSE ScriptProperties(Tail(props), toplevel_key, n,
            ScriptProperty(Head(props)[1], Head(props)[2], toplevel_key, n, r[2]))

\* The body of the loop at line 489 up to the push: the Script, or the error.
ScriptItem(item, toplevel_key, n) ==
    Try(or_err(as_table(item), Msg(FmtNotTable2, <<toplevel_key, n>>)),
        LAMBDA props :
    Try(ScriptProperties(props, toplevel_key, n, Ok([device |-> None, code |-> None])),
        LAMBDA acc :
    Try(or_err(acc.device, Msg(FmtMissingDevice, <<toplevel_key, n>>)),
        LAMBDA device :
    Try(or_err(acc.code, Msg(FmtMissingScript, <<toplevel_key, n>>)),
        LAMBDA code :
    Ok([device |-> device, code |-> code])))))

----------------------------------------------------------------------------
(* The cross-reference checks, lines 522-544 *)

RECURSIVE CheckScripts_ByDisplayName(_, _)
\* lines 522-526 with a device found also under a filter's `name`.
CheckScripts_ByDisplayName(ss, filters) ==
    IF ss = <<>> THEN None
    ELSE IF /\ ~contains_key(filters, Head(ss).device)
            /\ \A i \in 1..Len(filters) : filters[i].value.name # Some(Head(ss).device)
        THEN Some(Msg(FmtNoSuchFilter, <<Head(ss).device>>))
    ELSE CheckScripts_ByDisplayName(Tail(ss), filters)

RECURSIVE CheckScripts(_, _)
\* lines 522-526: the first script whose device is no filter, if any.
CheckScripts(ss, filters) ==
    IF ss = <<>> THEN None
    ELSE IF ~contains_key(filters, Head(ss).device)
        THEN Some(Msg(FmtNoSuchFilter, <<Head(ss).device>>))
    ELSE CheckScripts(Tail(ss), filters)

\* lines 529-537 without the check of lines 529-531.
CheckVirtualDevice_NoCollision(entry, filters) ==
    IF IsSome(entry.value.redirect_force_feedback_to)
            /\ ~contains_key(filters, Unwrap(entry.value.redirect_force_feedback_to))
        THEN Some(Msg(FmtNoSuchTarget, <<Unwrap(entry.value.redirect_force_feedback_to)>>))
    ELSE None

\* lines 529-537 without the check of lines 532-536.
CheckVirtualDevice_NoTarget(entry, filters) ==
    IF contains_key(filters, entry.key)
        THEN Some(Msg(FmtSameName, <<entry.key>>))
    ELSE None

\* lines 529-537 with the check of lines 533-535 before that of line 529.
CheckVirtualDevice_TargetFirst(entry, filters) ==
    IF IsSome(entry.value.redirect_force_feedback_to)
            /\ ~contains_key(filters, Unwrap(entry.value.redirect_force_feedback_to))
        THEN Some(Msg(FmtNoSuchTarget, <<Unwrap(entry.value.redirect_force_feedback_to)>>))
    ELSE IF contains_key(filters, entry.key)
        THEN Some(Msg(FmtSameName, <<entry.key>>))
    ELSE None

\* lines 529-537: one virtual device: the name collision, then the target.
CheckVirtualDevice(entry, filters) ==
    IF contains_key(filters, entry.key)
        THEN Some(Msg(FmtSameName, <<entry.key>>))
    ELSE IF IsSome(entry.value.redirect_force_feedback_to)
            /\ ~contains_key(filters, Unwrap(entry.value.redirect_force_feedback_to))
        THEN Some(Msg(FmtNoSuchTarget, <<Unwrap(entry.value.redirect_force_feedback_to)>>))
    ELSE None

RECURSIVE CheckVirtualDevices(_, _, _)
\* lines 528-538: the first virtual device with a violation, if any.
CheckVirtualDevices(vds, filters, found) ==
    IF found # <<>> \/ vds = <<>> THEN found
    ELSE CheckVirtualDevices(Tail(vds), filters, CheckVirtualDevice(Head(vds), filters))

\* lines 540-544
Config(filters, vds, ss) ==
    [device_filters |-> filters, virtual_devices |-> vds, scripts |-> ss]

\* Err( error ) for a violation found, else what comes next
ErrOr(found, next) == IF found # <<>> THEN Err(found[1]) ELSE next

\* lines 522-544: what load_from_file returns once every section is parsed.
CrossCheck(filters, vds, ss) ==
    ErrOr(CheckScripts(ss, filters),
          ErrOr(CheckVirtualDevices(vds, filters, None),
                Ok(Config(filters, vds, ss))))

----------------------------------------------------------------------------
(* Config::load_from_file, lines 192-545, as a state machine *)

Sections == {"device-filter", "virtual-device", "script"}

NoCall == [fn |-> "", arg |-> <<>>, ret |-> <<>>, done |-> FALSE]

\* doc.as_table().unwrap(), line 217
Top == Unwrap(as_table(doc))

\* The array of the section being iterated.
Items == Unwrap(as_array(Top[pos][2]))

\* lines 213-215: the state when the loop at line 217 is entered.
Loading(d) ==
    /\ doc = d
    /\ pc = "toplevel"
    /\ pos = 1
    /\ nth = 0
    /\ device_filters = <<>>
    /\ virtual_devices = <<>>
    /\ scripts = <<>>
    /\ result = None
    /\ df_hist = <<>>
    /\ vd_hist = <<>>
    /\ call = NoCall

\* `return err( .. )` and `?`: load_from_file returns the error.
Return(r) ==
    /\ result' = r
    /\ pc' = "done"
    /\ UNCHANGED <<doc, pos, nth, device_filters, virtual_devices, scripts,
                   df_hist, vd_hist, call>>

\* After the body of a section's loop: the next item, or the next key.
Advance ==
    IF nth + 1 < Len(Items)
        THEN nth' = nth + 1 /\ UNCHANGED <<pc, pos>>
        ELSE nth' = 0 /\ pc' = "toplevel" /\ pos' = pos + 1

\* lines 217-220, 310-311, 487-488, 518: the next top-level key.
ToplevelKey ==
    /\ pc = "toplevel"
    /\ pos <= Len(Top)
    /\ LET toplevel_key == Top[pos][1]
           item == Top[pos][2]
       IN  IF toplevel_key \notin Sections
               THEN Return(Err(Msg(FmtUnrecognized1, <<toplevel_key>>)))
           ELSE IF as_array(item) = None
               THEN Return(Err(Msg(IF toplevel_key = "virtual-device"
                                       THEN FmtNotTable1 ELSE FmtNotArray,
                                   <<toplevel_key>>)))
           ELSE /\ IF Unwrap(as_array(item)) = <<>>
                       THEN pos' = pos + 1 /\ pc' = pc
                       ELSE pos' = pos /\ pc' = toplevel_key
                /\ nth' = 0
                /\ UNCHANGED <<doc, device_filters, virtual_devices, scripts,
                               result, df_hist, vd_hist, call>>

\* `?` at lines 222-294, else the insert at line 297 and the next item.
DeviceFilterInsert(r) ==
    IF r[1] = "Err" THEN Return(r)
    ELSE /\ device_filters' = insert(device_filters, r[2].key, r[2].value)
         /\ df_hist' = Append(df_hist, r[2].key)
         /\ Advance
         /\ UNCHANGED <<doc, virtual_devices, scripts, result, vd_hist, call>>

\* lines 221-308: one item of the "device-filter" array.
DeviceFilterEntry ==
    /\ pc = "device-filter"
    /\ DeviceFilterInsert(DeviceFilterItem(Items[nth + 1], Top[pos][1], nth))

\* `?` at lines 313-468, else the insert at line 471 and the next item.
VirtualDeviceInsert(r) ==
    IF r[1] = "Err" THEN Return(r)
    ELSE /\ virtual_devices' = insert(virtual_devices, r[2].key, r[2].value)
         /\ vd_hist' = Append(vd_hist, r[2].key)
         /\ Advance
         /\ UNCHANGED <<doc, device_filters, scripts, result, df_hist, call>>

\* lines 312-485: one item of the "virtual-device" array.
VirtualDeviceEntry ==
    /\ pc = "virtual-device"
    /\ VirtualDeviceInsert(VirtualDeviceItem(Items[nth + 1], Top[pos][1], nth))

\* ScriptPush with the check of line 523 made as each script is pushed.
ScriptPush_CheckEarly(r) ==
    IF r[1] = "Err" THEN Return(r)
    ELSE IF ~contains_key(device_filters, r[2].device)
        THEN Return(Err(Msg(FmtNoSuchFilter, <<r[2].device>>)))
    ELSE /\ scripts' = Append(scripts, r[2])
         /\ Advance
         /\ UNCHANGED <<doc, device_filters, virtual_devices, result,
                        df_hist, vd_hist, call>>

\* `?` at lines 490-511, else the push at line 512 and the next item.
ScriptPush(r) ==
    IF r[1] = "Err" THEN Return(r)
    ELSE /\ scripts' = Append(scripts, r[2])
         /\ Advance
         /\ UNCHANGED <<doc, device_filters, virtual_devices, result,
                        df_hist, vd_hist, call>>

\* lines 489-516: one item of the "script" array.
ScriptEntry ==
    /\ pc = "script"
    /\ ScriptPush(ScriptItem(Items[nth + 1], Top[pos][1], nth))

\* lines 522-544: every key is done; the cross-reference checks, then Ok.
Validate ==
    /\ pc = "toplevel"
    /\ pos > Len(Top)
    /\ Return(CrossCheck(device_filters, virtual_devices, scripts))

Next == ToplevelKey \/ DeviceFilterEntry \/ VirtualDeviceEntry \/ ScriptEntry \/ Validate

----------------------------------------------------------------------------
(* The documents loaded *)

MaxEntries == 4

Pair(key, value) == <<key, value>>

\* [[device-filter]] tables
FilterTables ==
    { VTab(<<Pair("ref", VStr("a"))>>),
      VTab(<<Pair("name", VStr("a")), Pair("ref", VStr("b"))>>),
      VTab(<<Pair("exclusive", VBool(TRUE)), Pair("name", VStr("a")),
             Pair("vendor", VInt(1))>>),
      VTab(<<Pair("vendor", VInt(2))>>) }

\* [[virtual-device]] tables
VirtualTables ==
    { VTab(<<Pair("ref", VStr("v"))>>),
      VTab(<<Pair("name", VStr("a"))>>),
      VTab(<<Pair("name", VStr("v")), Pair("redirect-force-feedback-to", VStr("a")),
             Pair("ref", VStr("w"))>>),
      VTab(<<Pair("redirect-force-feedback-to", VStr("z")), Pair("ref", VStr("v"))>>),
      VTab(<<Pair("redirect-force-feedback-to", VStr("z")), Pair("ref", VStr("a"))>>),
      VTab(<<Pair("redirect-force-feedback-to", VStr("a"))>>) }

\* [[script]] tables
ScriptTables ==
    { VTab(<<Pair("device", VStr("a")), Pair("script", VStr("s"))>>),
      VTab(<<Pair("device", VStr("z")), Pair("script", VStr("s"))>>),
      VTab(<<Pair("device", VStr("b"))>>) }

\* Orders in which the sections are iterated: the sorted order of the keys,
\* and two orders of appearance.
SectionOrders ==
    { <<"device-filter", "script", "virtual-device">>,
      <<"virtual-device", "device-filter", "script">>,
      <<"script", "virtual-device", "device-filter">> }

Document(order, filters, vds, ss) ==
    VTab([i \in 1..Len(order) |->
            Pair(order[i],
                 VArr(CASE order[i] = "device-filter" -> filters
                        [] order[i] = "virtual-device" -> vds
                        [] order[i] = "script" -> ss))])

EntryCounts ==
    { c \in (0..MaxEntries) \X (0..MaxEntries) \X (0..MaxEntries) :
        c[1] + c[2] + c[3] <= MaxEntries }

\* Documents with a key, a section or an item of another shape.
OddDocuments ==
    { VTab(<<>>),
      VTab(<<Pair("bogus", VInt(1))>>),
      VTab(<<Pair("device-filter", VArr(<<VTab(<<Pair("ref", VStr("a"))>>)>>)),
             Pair("keyboard", VTab(<<>>))>>),
      VTab(<<Pair("device-filter", VTab(<<>>))>>),
      VTab(<<Pair("virtual-device", VStr("v"))>>),
      VTab(<<Pair("script", VInt(0))>>),
      VTab(<<Pair("device-filter", VArr(<<VInt(1)>>))>>),
      VTab(<<Pair("virtual-device", VArr(<<VStr("v")>>))>>),
      VTab(<<Pair("script", VArr(<<VBool(FALSE)>>))>>),
      VTab(<<Pair("device-filter",
                  VArr(<<VTab(<<Pair("bogus", VInt(1))>>)>>))>>),
      VTab(<<Pair("virtual-device",
                  VArr(<<VTab(<<Pair("vendor", VStr("x"))>>)>>))>>) }

\* The load of a document whose sections are arrays of tables, MaxEntries
\* tables in all.
InitSections ==
    \E c \in EntryCounts, order \in SectionOrders :
        \E f \in [1..c[1] -> FilterTables], v \in [1..c[2] -> VirtualTables],
           s \in [1..c[3] -> ScriptTables] :
            Loading(Document(order, f, v, s))

Init == InitSections \/ \E d \in OddDocuments : Loading(d)

Spec == Init /\ [][Next]_vars

----------------------------------------------------------------------------
(* Documents with absolute axes *)

MaxSubProps == 3

MaxAxes == 2

AxisKeys ==
    { <<"X">>, <<"1", "5">>, <<"0", "x", "f">>, <<"0", "1", "5">>, <<"0", "x">>,
      <<"q">> }

\* The <<key, value>> pairs an axis sub-table is made of.
SubPairs ==
    { Pair("initial-value", VInt(9)),
      Pair("minimum", VInt(-7)), Pair("minimum", VStr("x")), Pair("min", VInt(3)),
      Pair("maximum", VInt(255)), Pair("maximum", VWide(1, 0)), Pair("max", VInt(100)),
      Pair("noise-threshold", VInt(5)), Pair("deadzone", VInt(4)),
      Pair("resolution", VInt(6)), Pair("bogus", VInt(1)) }

DistinctKeys(pairs) ==
    \A i, j \in 1..Len(pairs) : i # j => pairs[i][1] # pairs[j][1]

\* Short sub-tables for the documents with several axes.
PlainSubTables ==
    { <<Pair("maximum", VInt(255)), Pair("minimum", VInt(-7))>>,
      <<Pair("initial-value", VInt(9)), Pair("max", VInt(100)), Pair("min", VInt(3))>>,
      <<Pair("maximum", VInt(255)), Pair("minimum", VInt(0))>>,
      <<Pair("minimum", VInt(-7))>> }

AbsDocument(abs) ==
    VTab(<<Pair("device-filter", VArr(<<VTab(<<Pair("ref", VStr("a"))>>)>>)),
           Pair("script", VArr(<<VTab(<<Pair("device", VStr("a")),
                                        Pair("script", VStr("s"))>>)>>)),
           Pair("virtual-device",
                VArr(<<VTab(<<Pair("ref", VStr("v"))>>),
                       VTab(<<Pair("abs", abs), Pair("ref", VStr("w"))>>)>>))>>)

\* One axis, every sub-table of at most MaxSubProps pairs.
InitOneAxis ==
    \E n \in 0..MaxSubProps, axis_name \in {<<"X">>, <<"1", "5">>} :
        \E props \in [1..n -> SubPairs] :
            /\ DistinctKeys(props)
            /\ Loading(AbsDocument(VTab(<<Pair(axis_name, VTab(props))>>)))

\* At most MaxAxes axes, short sub-tables.
InitAxes ==
    \E n \in 0..MaxAxes :
        \E names \in [1..n -> AxisKeys], subs \in [1..n -> PlainSubTables] :
            /\ \A i, j \in 1..n : i # j => names[i] # names[j]
            /\ Loading(AbsDocument(VTab([i \in 1..n |-> Pair(names[i], VTab(subs[i]))])))

\* An axis or an `abs` of another shape.
InitOddAxes ==
    \E abs \in { VInt(1), VTab(<<Pair(<<"X">>, VInt(0))>>) } : Loading(AbsDocument(abs))

InitAbs == InitOneAxis \/ InitAxes \/ InitOddAxes

SpecAbs == InitAbs /\ [][Next]_vars

----------------------------------------------------------------------------
(* The resolver functions called on their own *)

Calling(fn, arg) ==
    /\ call = [fn |-> fn, arg |-> arg, ret |-> <<>>, done |-> FALSE]
    /\ doc = VTab(<<>>)
    /\ pc = "call"
    /\ pos = 1
    /\ nth = 0
    /\ device_filters = <<>>
    /\ virtual_devices = <<>>
    /\ scripts = <<>>
    /\ result = None
    /\ df_hist = <<>>
    /\ vd_hist = <<>>

\* A call of fn that has not returned.
Ready(fn) == pc = "call" /\ call.fn = fn /\ ~call.done

Returned(ret) == [call EXCEPT !.ret = ret, !.done = TRUE]

CallBus ==
    /\ Ready("try_into_bus_value")
    /\ call' = Returned(try_into_bus_value(call.arg))
    /\ UNCHANGED <<doc, pc, pos, nth, device_filters, virtual_devices, scripts,
                   result, df_hist, vd_hist>>

CallKey ==
    /\ Ready("try_into_key_value")
    /\ call' = Returned(try_into_key_value(call.arg))
    /\ UNCHANGED <<doc, pc, pos, nth, device_filters, virtual_devices, scripts,
                   result, df_hist, vd_hist>>

CallRel ==
    /\ Ready("try_into_rel_value")
    /\ call' = Returned(try_into_rel_value(call.arg))
    /\ UNCHANGED <<doc, pc, pos, nth, device_filters, virtual_devices, scripts,
                   result, df_hist, vd_hist>>

CallFf ==
    /\ Ready("try_into_ff_value")
    /\ call' = Returned(try_into_ff_value(call.arg))
    /\ UNCHANGED <<doc, pc, pos, nth, device_filters, virtual_devices, scripts,
                   result, df_hist, vd_hist>>

CallAbs ==
    /\ Ready("try_into_abs_s")
    /\ call' = Returned(try_into_abs_s(call.arg))
    /\ UNCHANGED <<doc, pc, pos, nth, device_filters, virtual_devices, scripts,
                   result, df_hist, vd_hist>>

IdentFns ==
    {"try_into_bus_value", "try_into_key_value", "try_into_rel_value",
     "try_into_ff_value"}

MaxProbe == 40

\* Integers around 0 and around 0xFFFF, and far ones.
ProbeIntegers ==
    { VInt(i) : i \in -MaxProbe..MaxProbe }
        \cup { VInt(U16Max + i) : i \in -MaxProbe..MaxProbe }
        \cup { VInt(2 * (U16Max + 1) + i) : i \in 0..MaxProbe }
        \cup { VWide(w, i) : w \in {-1, 1}, i \in {-1, 0, 1, U16Max} }

ProbeStrings ==
    { VStr(s) : s \in BusNames \cup KeyNames \cup RelNames \cup FfNames
                       \cup {"", "5", "0x10", "65536", "nosuch", "usb"} }

ProbeShapes ==
    { VBool(TRUE), VBool(FALSE), VArr(<<>>), VArr(<<VInt(5)>>), VTab(<<>>),
      <<"float", 5>>, <<"datetime", 0>> }

InitIdent ==
    \E fn \in IdentFns, arg \in ProbeIntegers \cup ProbeStrings \cup ProbeShapes :
        Calling(fn, arg)

NextIdent == CallBus \/ CallKey \/ CallRel \/ CallFf

SpecIdent == InitIdent /\ [][NextIdent]_vars

MaxKeyLen == 7

KeyAlphabet == {"0", "1", "9", "f", "x"}

\* Axis keys with a character outside KeyAlphabet.
OddKeys ==
    AbsNames \cup
    { <<"1", "5">>, <<"0", "x", "1", "F">>, <<"0", "x", "+", "1", "f">>,
      <<"0", "x", "-", "1">>, <<"0", "x", "+">>, <<"+", "1", "5">>, <<"-", "1">>,
      <<"0", "X", "1", "f">>, <<"x", "0">>, <<"1", "5", " ">>, <<"0", "x", "g">>,
      <<"6", "5", "5", "3", "5">>, <<"6", "5", "5", "3", "6">>,
      <<"0", "x", "F", "F", "F", "F">>, <<"A", "B", "S", "_", "X">> }

InitAxisName ==
    \/ \E n \in 0..MaxKeyLen : \E string \in [1..n -> KeyAlphabet] :
            Calling("try_into_abs_s", string)
    \/ \E string \in OddKeys : Calling("try_into_abs_s", string)

NextAxisName == CallAbs

SpecAxisName == InitAxisName /\ [][NextAxisName]_vars

----------------------------------------------------------------------------
(* Documents that load, but for what is put into them *)

BaseAxis == <<Pair("maximum", VInt(255)), Pair("minimum", VInt(0))>>

BaseFilter == <<Pair("ref", VStr("a"))>>

BaseScript == <<Pair("device", VStr("a")), Pair("script", VStr("s"))>>

\* The value of a pair that takes its key out of a table.
Absent == <<"absent">>

\* A pair put into the table of a place, at the front or at the back; it
\* takes the place of the pair of the same key.
Fault(place, front, pair) == [place |-> place, front |-> front, pair |-> pair]

Put(pairs, fault) ==
    (IF fault.front /\ fault.pair[2] # Absent THEN <<fault.pair>> ELSE <<>>)
        \o SelectSeq(pairs, LAMBDA p : p[1] # fault.pair[1])
        \o (IF ~fault.front /\ fault.pair[2] # Absent THEN <<fault.pair>> ELSE <<>>)

RECURSIVE PutAll(_, _, _)
\* The table of a place with the faults of that place, in their order.
PutAll(pairs, place, faults) ==
    IF faults = <<>> THEN pairs
    ELSE PutAll(IF Head(faults).place = place THEN Put(pairs, Head(faults)) ELSE pairs,
                place, Tail(faults))

\* The second entry of each section is the one the faults go into; the
\* first one loads.
FaultyEntries(section, faults) ==
    CASE section = "device-filter" ->
            <<VTab(<<Pair("ref", VStr("b"))>>),
              VTab(PutAll(BaseFilter, section, faults))>>
      [] section = "virtual-device" ->
            <<VTab(<<Pair("ref", VStr("v"))>>),
              VTab(PutAll(<<Pair("abs",
                                 VTab(PutAll(<<Pair(<<"X">>,
                                                    VTab(PutAll(BaseAxis, "axis", faults)))>>,
                                             "abs", faults))),
                            Pair("ref", VStr("w"))>>, section, faults))>>
      [] section = "script" ->
            <<VTab(BaseScript), VTab(PutAll(BaseScript, section, faults))>>

FaultyDocument(order, faults) ==
    VTab(PutAll([i \in 1..Len(order) |->
                    Pair(order[i], VArr(FaultyEntries(order[i], faults)))],
                "top", faults))

----------------------------------------------------------------------------
(* Documents with one 16-bit field *)

\* One 16-bit field of a filter or of a virtual device, holding an integer
\* around the ends of the range, one whose low 16 bits are small beyond 16
\* and beyond 32 bits, or a value that is no integer.
InitNarrow ==
    \E field \in ({"device-filter"}
                     \X {"vendor", "not_vendor", "product", "version", "chmod"})
                 \cup ({"virtual-device"} \X {"vendor", "product", "version", "chmod"}),
       front \in BOOLEAN, order \in SectionOrders,
       value \in ProbeIntegers \cup ProbeStrings \cup ProbeShapes
                 \cup { VInt(k * (U16Max + 1) + i) : k \in {1, 2, 32767}, i \in 0..MaxProbe }
                 \cup { VWide(w, i) : w \in {-1, 1}, i \in 0..MaxProbe } :
        Loading(FaultyDocument(order, <<Fault(field[1], front, Pair(field[2], value))>>))

SpecNarrow == InitNarrow /\ [][Next]_vars

----------------------------------------------------------------------------
(* Documents with faults *)

MaxFaults == 2

\* The faults a document is given: first the keys no table knows.
Faults ==
    <<Fault("top", TRUE, Pair("bogus", VInt(1))),
      Fault("top", FALSE, Pair("keyboard", VArr(<<>>))),
      Fault("device-filter", TRUE, Pair("bogus", VInt(1))),
      Fault("device-filter", FALSE, Pair("keys", VArr(<<>>))),
      Fault("virtual-device", TRUE, Pair("bogus", VStr("x"))),
      Fault("virtual-device", FALSE, Pair("exclusive", VBool(TRUE))),
      Fault("script", TRUE, Pair("bogus", VInt(1))),
      Fault("script", FALSE, Pair("ref", VStr("s"))),
      Fault("axis", TRUE, Pair("bogus", VInt(1))),
      Fault("axis", FALSE, Pair("initial_value", VInt(1)))>>
    \o
    \* Sections, items and values of another shape.
    <<Fault("top", FALSE, Pair("script", VInt(0))),
      Fault("top", TRUE, Pair("virtual-device", VStr("v"))),
      Fault("top", TRUE, Pair("device-filter", VArr(<<VTab(BaseFilter), VInt(1)>>))),
      Fault("device-filter", FALSE, Pair("name", VInt(1))),
      Fault("device-filter", TRUE, Pair("vendor", VInt(U16Max + 1))),
      Fault("device-filter", TRUE, Pair("chmod", VStr("x"))),
      Fault("device-filter", FALSE, Pair("exclusive", VStr("x"))),
      Fault("device-filter", FALSE, Pair("kind", VStr("nosuch"))),
      Fault("device-filter", TRUE, Pair("bus", VInt(-1))),
      Fault("virtual-device", TRUE, Pair("preset", VStr("nosuch"))),
      Fault("virtual-device", FALSE, Pair("keys", VInt(1))),
      Fault("virtual-device", FALSE, Pair("rel", VArr(<<VStr("REL_X"), VStr("nosuch")>>))),
      Fault("virtual-device", TRUE, Pair("abs", VInt(1))),
      Fault("abs", FALSE, Pair(<<"q">>, VTab(BaseAxis))),
      Fault("abs", TRUE, Pair(<<"Y">>, VInt(0))),
      Fault("axis", FALSE, Pair("deadzone", VStr("x"))),
      Fault("axis", TRUE, Pair("resolution", VWide(1, 0))),
      Fault("script", TRUE, Pair("device", VInt(1)))>>
    \o
    \* Keys taken out, and names that do not resolve.
    <<Fault("device-filter", TRUE, Pair("ref", Absent)),
      Fault("virtual-device", TRUE, Pair("ref", Absent)),
      Fault("script", TRUE, Pair("script", Absent)),
      Fault("script", TRUE, Pair("device", Absent)),
      Fault("axis", TRUE, Pair("minimum", Absent)),
      Fault("axis", TRUE, Pair("maximum", Absent)),
      Fault("script", FALSE, Pair("device", VStr("z"))),
      Fault("virtual-device", FALSE, Pair("ref", VStr("a"))),
      Fault("virtual-device", TRUE, Pair("redirect-force-feedback-to", VStr("z")))>>
    \o
    \* What goes into a document that loads: nothing wrong.
    <<Fault("device-filter", FALSE, Pair("vendor", VInt(U16Max))),
      Fault("virtual-device", FALSE, Pair("redirect-force-feedback-to", VStr("b"))),
      Fault("axis", FALSE, Pair("min", VInt(-7))),
      Fault("device-filter", FALSE, Pair("name", VStr("z"))),
      Fault("virtual-device", FALSE, Pair("ref", VStr("z")))>>

\* At most MaxFaults of the faults, in the order of Faults.
InitFaults ==
    \E n \in 0..MaxFaults, order \in SectionOrders :
        \E ids \in [1..n -> 1..Len(Faults)] :
            /\ \A i, j \in 1..n : i < j => ids[i] < ids[j]
            /\ Loading(FaultyDocument(order, [i \in 1..n |-> Faults[ids[i]]]))

SpecFaults == InitFaults /\ [][Next]_vars

----------------------------------------------------------------------------
(* The document as written, for the statements below *)

Done == pc = "done"

Loaded == pc = "done" /\ result[1] = "Ok"

Failed == pc = "done" /\ result[1] = "Err"

\* The diagnostic of a failed load has format fmt.
FailedWith(fmt) == Failed /\ result[2].fmt = fmt

HasKey(pairs, key) == \E i \in 1..Len(pairs) : pairs[i][1] = key

ValueOf(pairs, key) == pairs[CHOOSE i \in 1..Len(pairs) : pairs[i][1] = key][2]

HasString(pairs, key) == HasKey(pairs, key) /\ ValueOf(pairs, key)[1] = "str"

\* The strings a table gives under a key: one or none.
StringsOf(pairs, key) ==
    IF HasString(pairs, key) THEN {ValueOf(pairs, key)[2]} ELSE {}

\* The internal name a table declares: that of `ref`, else that of `name`.
Declared(pairs) ==
    IF HasKey(pairs, "ref") THEN StringsOf(pairs, "ref") ELSE StringsOf(pairs, "name")

Nameless(pairs) == ~HasKey(pairs, "ref") /\ ~HasKey(pairs, "name")

IsTables(value) ==
    /\ value[1] = "array"
    /\ \A i \in 1..Len(value[2]) : value[2][i][1] = "table"

\* The tables of a section of the document, in the order written; none when
\* the section is absent or is no array of tables.
TablesOf(section) ==
    IF HasKey(Top, section) /\ IsTables(ValueOf(Top, section))
        THEN [i \in 1..Len(ValueOf(Top, section)[2]) |-> ValueOf(Top, section)[2][i][2]]
        ELSE <<>>

WrittenFilters == TablesOf("device-filter")

WrittenVirtuals == TablesOf("virtual-device")

WrittenScripts == TablesOf("script")

FilterNames == UNION { Declared(WrittenFilters[i]) : i \in 1..Len(WrittenFilters) }

VirtualNames == UNION { Declared(WrittenVirtuals[i]) : i \in 1..Len(WrittenVirtuals) }

ScriptDevices ==
    UNION { StringsOf(WrittenScripts[i], "device") : i \in 1..Len(WrittenScripts) }

Redirects ==
    UNION { StringsOf(WrittenVirtuals[i], "redirect-force-feedback-to") :
                i \in 1..Len(WrittenVirtuals) }

\* Virtual-device table i is not followed by one declaring the same name.
Last(i) ==
    \A j \in (i + 1)..Len(WrittenVirtuals) :
        Declared(WrittenVirtuals[j]) \cap Declared(WrittenVirtuals[i]) = {}

LastRedirects ==
    UNION { StringsOf(WrittenVirtuals[i], "redirect-force-feedback-to") :
                i \in { j \in 1..Len(WrittenVirtuals) : Last(j) } }

\* Strings a script or a redirect names that no filter declares.
Dangling == (ScriptDevices \cup Redirects) \ FilterNames

\* The same, leaving out the virtual-device tables a later one replaces.
LastDangling == (ScriptDevices \cup LastRedirects) \ FilterNames

\* Names declared by a filter and by a virtual device.
Colliding == FilterNames \cap VirtualNames

\* The cross-reference checks have run: every key of the document is done.
Validated == pc = "done" /\ pos > Len(Top)

\* Script i, virtual device i has a violation the checks look for.
ScriptDangles(i) == ~contains_key(device_filters, scripts[i].device)

Collides(i) == contains_key(device_filters, virtual_devices[i].key)

TargetDangles(i) ==
    /\ virtual_devices[i].value.redirect_force_feedback_to # <<>>
    /\ ~contains_key(device_filters,
                     virtual_devices[i].value.redirect_force_feedback_to[1])

NoScriptDangles == \A j \in 1..Len(scripts) : ~ScriptDangles(j)

\* No violation is met before virtual device i is checked.
FirstChecked(i) ==
    /\ NoScriptDangles
    /\ \A j \in 1..(i - 1) : ~Collides(j) /\ ~TargetDangles(j)

----------------------------------------------------------------------------
(* C1 *)

\* In a Config returned, every script's device and every redirect target is
\* a key of device_filters.
RefsResolve ==
    Loaded =>
        /\ \A i \in 1..Len(result[2].scripts) :
              contains_key(result[2].device_filters, result[2].scripts[i].device)
        /\ \A i \in 1..Len(result[2].virtual_devices) :
              \A target \in
                  { result[2].virtual_devices[i].value.redirect_force_feedback_to[j] :
                      j \in 1..Len(result[2].virtual_devices[i].value.redirect_force_feedback_to) } :
                  contains_key(result[2].device_filters, target)

\* A dangling-reference diagnostic names a string that no filter declares,
\* and it is the diagnostic given when the cross-reference checks run and the
\* reference is the first violation they meet: scripts first, then each
\* virtual device, its name collision before its redirect.
DanglingReported ==
    /\ (FailedWith(FmtNoSuchFilter) \/ FailedWith(FmtNoSuchTarget))
          => Validated /\ result[2].args[1] \in Dangling
    /\ Validated =>
          /\ \A i \in 1..Len(scripts) :
                (ScriptDangles(i) /\ \A j \in 1..(i - 1) : ~ScriptDangles(j))
                    => /\ FailedWith(FmtNoSuchFilter)
                       /\ result[2].args = <<scripts[i].device>>
          /\ \A i \in 1..Len(virtual_devices) :
                (FirstChecked(i) /\ ~Collides(i) /\ TargetDangles(i))
                    => /\ FailedWith(FmtNoSuchTarget)
                       /\ result[2].args =
                              virtual_devices[i].value.redirect_force_feedback_to

\* C1 as claimed: in every Config returned, every script's device and every
\* redirect target is a key of device_filters; a document in which a script
\* or a redirect names a string that no device filter declares fails to
\* load, with a diagnostic containing that string when the reference is the
\* first violation met.
C1_AsClaimed ==
    /\ RefsResolve
    /\ (Done /\ Dangling # {}) => Failed
    /\ DanglingReported

\* C1, amended: in every Config returned, every script's device and every
\* redirect target is a key of device_filters; a document fails to load when
\* a script, or a virtual-device entry that no later entry of the same name
\* replaces, names a string that no device filter declares, with a
\* diagnostic containing that string when the reference is the first
\* violation met.
C1_ReferentialIntegrity ==
    /\ RefsResolve
    /\ (Done /\ LastDangling # {}) => Failed
    /\ (FailedWith(FmtNoSuchFilter) \/ FailedWith(FmtNoSuchTarget))
          => result[2].args[1] \in LastDangling
    /\ DanglingReported

\* A redirect target that no filter declares is reported, after a script and
\* a virtual device that passed the checks.
C1_Witness ==
    /\ FailedWith(FmtNoSuchTarget)
    /\ result[2].args = <<"z">>
    /\ Len(scripts) > 0
    /\ Len(virtual_devices) > 1
    /\ TargetDangles(2)

----------------------------------------------------------------------------
(* C2 *)

KeySet(map) == { map[i].key : i \in 1..Len(map) }

\* In a Config returned, no name is a key of both mappings.
Disjoint ==
    Loaded => KeySet(result[2].device_filters) \cap KeySet(result[2].virtual_devices) = {}

\* C2: in every Config returned the key sets of device_filters and
\* virtual_devices are disjoint.  Any document in which a virtual device's
\* internal name (from `ref`, or from `name` when `ref` is absent) equals a
\* device filter's fails to load, whichever section comes first.  The
\* name-collision diagnostic always names such a name, and it is the one
\* given when the cross-reference checks run and the collision is the first
\* violation they meet.
C2_Disjointness ==
    /\ Disjoint
    /\ (Done /\ Colliding # {}) => Failed
    /\ FailedWith(FmtSameName) => Validated /\ result[2].args[1] \in Colliding
    /\ Validated =>
          \A i \in 1..Len(virtual_devices) :
              (FirstChecked(i) /\ Collides(i))
                  => /\ FailedWith(FmtSameName)
                     /\ result[2].args = <<virtual_devices[i].key>>

\* A collision is reported for a virtual device declared before the filter,
\* by `name`, after a script and a virtual device that passed the checks.
C2_Witness ==
    /\ FailedWith(FmtSameName)
    /\ Top[1][1] = "virtual-device"
    /\ Len(scripts) > 0
    /\ Len(virtual_devices) > 1
    /\ Collides(2)
    /\ ~HasKey(WrittenVirtuals[2], "ref")

----------------------------------------------------------------------------
(* C3 *)

NamedSections == {"device-filter", "virtual-device"}

\* The load stopped in item n (counted from 0) of a section's array.
StoppedAt(section, n) ==
    /\ Failed
    /\ pos <= Len(Top)
    /\ Top[pos][1] = section
    /\ Top[pos][2][1] = "array"
    /\ nth = n

\* The entries of a section the load reached were stored under the name of
\* `ref` when present, else under that of `name`.
NamedAsDeclared ==
    /\ \A i \in 1..Len(df_hist) : Declared(WrittenFilters[i]) = {df_hist[i]}
    /\ \A i \in 1..Len(vd_hist) : Declared(WrittenVirtuals[i]) = {vd_hist[i]}

\* The properties of an entry are all accepted.
Accepted(section, pairs, n) ==
    IF section = "device-filter"
        THEN IsOk(DeviceFilterProperties(pairs, section, n, Ok(DeviceFilterLocals)))
        ELSE IsOk(VirtualDeviceProperties(pairs, section, n, Ok(VirtualDeviceLocals)))

\* C3: every device-filter and virtual-device entry is stored under the
\* value of `ref` when present (even if `name` is present too), else under
\* the value of `name`.  When an entry has neither, the load fails; once the
\* load reaches that entry and has accepted its properties, the diagnostic
\* is the 'missing ref' one naming the section and the entry's index, and
\* that diagnostic is given for no other entry.
C3_InternalName ==
    /\ NamedAsDeclared
    /\ Done =>
          \A section \in NamedSections :
              \A i \in 1..Len(TablesOf(section)) :
                  Nameless(TablesOf(section)[i]) => Failed
    /\ \A section \in NamedSections :
          \A n \in 0..MaxEntries :
              (StoppedAt(section, n) /\ Items[n + 1][1] = "table")
                  => (/\ Nameless(Items[n + 1][2])
                      /\ Accepted(section, Items[n + 1][2], n))
                     <=> (/\ FailedWith(FmtMissingRef)
                          /\ result[2].args = <<section, n>>)
    /\ FailedWith(FmtMissingRef) =>
          \E section \in NamedSections : StoppedAt(section, nth)

\* The second virtual device has neither key and is reported, after a filter
\* stored under its `ref` although it has a `name`.
C3_Witness ==
    /\ FailedWith(FmtMissingRef)
    /\ result[2].args = <<"virtual-device", 1>>
    /\ Keys(device_filters) = <<"b">>
    /\ HasKey(WrittenFilters[1], "name")

----------------------------------------------------------------------------
(* C4 *)

\* What a toml value holds: the string, the boolean, or the integer's low
\* word.
Payload(value) == IF value[1] = "int" THEN value[2][2] ELSE value[2]

Given(pairs, key) ==
    IF HasKey(pairs, key) THEN Some(Payload(ValueOf(pairs, key))) ELSE None

PlainFields == {"name", "vendor", "not_vendor", "product", "version", "chmod"}

\* Every field of the DeviceFilter is the one of the table; absent, and
\* exclusive false, for what the table omits.
FromTable(filter, pairs) ==
    /\ \A field \in PlainFields : filter[field] = Given(pairs, field)
    /\ (filter.bus = None) <=> ~HasKey(pairs, "bus")
    /\ (filter.kind = None) <=> ~HasKey(pairs, "kind")
    /\ filter.exclusive = (HasKey(pairs, "exclusive") /\ ValueOf(pairs, "exclusive")[2])

\* The last table of a sequence that declares the name.
LastOf(tables, key) ==
    CHOOSE i \in 1..Len(tables) :
        /\ Declared(tables[i]) = {key}
        /\ \A j \in (i + 1)..Len(tables) : Declared(tables[j]) # {key}

\* The first one.
FirstOf(tables, key) ==
    CHOOSE i \in 1..Len(tables) :
        /\ Declared(tables[i]) = {key}
        /\ \A j \in 1..(i - 1) : Declared(tables[j]) # {key}

Repeated(tables) ==
    \E i, j \in 1..Len(tables) : i # j /\ Declared(tables[i]) = Declared(tables[j])

\* A device-filter table with a name and nothing the parser rejects.
WellFormedFilter(pairs) ==
    /\ Declared(pairs) # {}
    /\ \A i \in 1..Len(pairs) :
          \/ pairs[i][1] \in {"ref", "name"} /\ pairs[i][2][1] = "str"
          \/ /\ pairs[i][1] \in PlainFields \ {"name"}
             /\ pairs[i][2][1] = "int"
             /\ I64Ge0(pairs[i][2][2])
             /\ I64Le(pairs[i][2][2], U16Max)
          \/ pairs[i][1] = "exclusive" /\ pairs[i][2][1] = "bool"

\* C4: when device-filter entries resolve to the same internal name the load
\* does not fail for that reason (it never stops at a well-formed named
\* entry), the mapping holds exactly one entry under each declared name, and
\* every field of that entry comes from the last entry of that name in the
\* document: absent, or exclusive = false, where that entry omits it.
C4_LastWriteWins ==
    /\ \A n \in 0..MaxEntries :
          (StoppedAt("device-filter", n) /\ Items[n + 1][1] = "table")
              => ~WellFormedFilter(Items[n + 1][2])
    /\ Loaded =>
          /\ KeySet(result[2].device_filters) = FilterNames
          /\ \A k, l \in 1..Len(result[2].device_filters) :
                result[2].device_filters[k].key = result[2].device_filters[l].key
                    => k = l
          /\ \A k \in 1..Len(result[2].device_filters) :
                FromTable(result[2].device_filters[k].value,
                          WrittenFilters[LastOf(WrittenFilters,
                                                result[2].device_filters[k].key)])

\* A load of three filters, the first and the last named "a": the one entry
\* "a" has none of the vendor, name and exclusive the first one gave.
C4_Witness ==
    /\ Loaded
    /\ Len(WrittenFilters) = 3
    /\ HasKey(WrittenFilters[1], "vendor")
    /\ Declared(WrittenFilters[1]) = {"a"}
    /\ WrittenFilters[3] = <<Pair("ref", VStr("a"))>>
    /\ Get(result[2].device_filters, "a").vendor = None
    /\ Get(result[2].device_filters, "a").name = None
    /\ ~Get(result[2].device_filters, "a").exclusive

----------------------------------------------------------------------------
(* C5 *)

\* The entries of a mapping are in the order of the tables that hold their
\* values: of the last table of each name.
InOrderOfValues(map, tables) ==
    \A k, l \in 1..Len(map) :
        k < l => LastOf(tables, map[k].key) < LastOf(tables, map[l].key)

\* The entries of a mapping are in the order in which the names first appear.
InOrderOfNames(map, tables) ==
    \A k, l \in 1..Len(map) :
        k < l => FirstOf(tables, map[k].key) < FirstOf(tables, map[l].key)

\* Entry for entry, the mapping is the sequence of tables.
AsWritten(map, tables) ==
    /\ Len(map) = Len(tables)
    /\ \A i \in 1..Len(map) : Declared(tables[i]) = {map[i].key}

\* C5 as claimed: for every document that loads, also one declaring a name
\* more than once in a section, device_filters and virtual_devices iterate
\* in the relative order of the document entries their values were built
\* from.
C5_AsClaimed ==
    Loaded =>
        /\ InOrderOfValues(result[2].device_filters, WrittenFilters)
        /\ InOrderOfValues(result[2].virtual_devices, WrittenVirtuals)

\* C5, amended: for every document that loads, device_filters and
\* virtual_devices iterate each internal name once, in the order in which
\* the names first appear in the document (an entry replacing an earlier one
\* of its name takes that one's place); when no name is declared more than
\* once in a section, the order exactly matches the order of appearance of
\* the entries.
C5_Order ==
    Loaded =>
        /\ InOrderOfNames(result[2].device_filters, WrittenFilters)
        /\ InOrderOfNames(result[2].virtual_devices, WrittenVirtuals)
        /\ ~Repeated(WrittenFilters)
              => AsWritten(result[2].device_filters, WrittenFilters)
        /\ ~Repeated(WrittenVirtuals)
              => AsWritten(result[2].virtual_devices, WrittenVirtuals)

\* Filters written a, b, a: the mapping iterates a, b, and a's value is the
\* third entry's.
C5_Witness ==
    /\ Loaded
    /\ Len(WrittenFilters) = 3
    /\ Declared(WrittenFilters[1]) = {"a"}
    /\ Declared(WrittenFilters[3]) = {"a"}
    /\ WrittenFilters[1] # WrittenFilters[3]
    /\ Keys(result[2].device_filters) = <<"a", "b">>
    /\ FromTable(Get(result[2].device_filters, "a"), WrittenFilters[3])

----------------------------------------------------------------------------
(* The `abs` table as written *)

\* The <<axis key, sub-table>> pairs of the `abs` table of virtual-device
\* entry e; none when the entry has no `abs` table.
AbsOf(e) ==
    IF /\ e <= Len(WrittenVirtuals)
       /\ HasKey(WrittenVirtuals[e], "abs")
       /\ ValueOf(WrittenVirtuals[e], "abs")[1] = "table"
        THEN ValueOf(WrittenVirtuals[e], "abs")[2]
        ELSE <<>>

\* The entry of the documents of SpecAbs that has the `abs` table.
AbsEntry == Len(WrittenVirtuals)

Axes == AbsOf(AbsEntry)

IsSubTable(value) == value[1] = "table"

\* The pairs of axis i's sub-table.
Sub(i) == Axes[i][2][2]

HasMinimum(pairs) == HasKey(pairs, "minimum") \/ HasKey(pairs, "min")

HasMaximum(pairs) == HasKey(pairs, "maximum") \/ HasKey(pairs, "max")

\* Every pair of a sub-table is one the parser accepts.
AcceptedSub(pairs) ==
    \A k \in 1..Len(pairs) :
        /\ pairs[k][1] \in AxisSubproperties
        /\ pairs[k][2][1] = "int"
        /\ TryIntoI32(pairs[k][2][2]) # None

\* Axis i is parsed up to the check of its bounds.
Reached(i) ==
    /\ try_into_abs_s(Axes[i][1]) # None
    /\ IsSubTable(Axes[i][2])
    /\ AcceptedSub(Sub(i))

Complete(i) == Reached(i) /\ HasMinimum(Sub(i)) /\ HasMaximum(Sub(i))

\* The abs_bits of the virtual device built from the `abs` table.
Bits(config) == Get(config.virtual_devices, "w").abs_bits

----------------------------------------------------------------------------
(* C6 *)

\* C6: in every Config returned, each virtual device's abs_bits holds one
\* AbsoluteAxisBit per distinct axis code, for every abs table accepted by
\* the parser, also one whose distinct keys resolve to the same axis.
C6_AxisUniqueness ==
    Loaded =>
        \A v \in 1..Len(result[2].virtual_devices) :
            \A i, j \in 1..Len(result[2].virtual_devices[v].value.abs_bits) :
                result[2].virtual_devices[v].value.abs_bits[i].axis
                    = result[2].virtual_devices[v].value.abs_bits[j].axis => i = j

----------------------------------------------------------------------------
(* C9 *)

GivenOr(pairs, key, default) ==
    IF HasKey(pairs, key) THEN Payload(ValueOf(pairs, key)) ELSE default

\* C9: for every accepted axis sub-table, the record has initial_value equal
\* to the given initial-value or, when absent, to the record's minimum, and
\* deadzone, noise_threshold and resolution each equal to the given value or
\* 0 when absent; one record per sub-table, in the order of the table.
C9_AxisDefaults ==
    (Loaded /\ Axes # <<>>) =>
        /\ Len(Bits(result[2])) = Len(Axes)
        /\ \A i \in 1..Len(Axes) :
              /\ Bits(result[2])[i].initial_value =
                     GivenOr(Sub(i), "initial-value", Bits(result[2])[i].minimum)
              /\ Bits(result[2])[i].deadzone = GivenOr(Sub(i), "deadzone", 0)
              /\ Bits(result[2])[i].noise_threshold = GivenOr(Sub(i), "noise-threshold", 0)
              /\ Bits(result[2])[i].resolution = GivenOr(Sub(i), "resolution", 0)
              /\ Bits(result[2])[i].minimum \in
                     { Payload(Sub(i)[k][2]) :
                         k \in { m \in 1..Len(Sub(i)) : Sub(i)[m][1] \in {"minimum", "min"} } }
              /\ Bits(result[2])[i].maximum \in
                     { Payload(Sub(i)[k][2]) :
                         k \in { m \in 1..Len(Sub(i)) : Sub(i)[m][1] \in {"maximum", "max"} } }

\* Two axes load: one with only minimum = -7 and maximum = 255, whose
\* initial_value is -7 and whose other fields are 0, and one that gives its
\* initial-value.
C9_Witness ==
    /\ Loaded
    /\ Len(Axes) = 2
    /\ \E i, j \in 1..2 :
          /\ ~HasKey(Sub(i), "initial-value")
          /\ Bits(result[2])[i].minimum = -7
          /\ Bits(result[2])[i].initial_value = -7
          /\ Bits(result[2])[i].deadzone = 0
          /\ Bits(result[2])[i].noise_threshold = 0
          /\ Bits(result[2])[i].resolution = 0
          /\ HasKey(Sub(j), "initial-value")
          /\ Bits(result[2])[j].initial_value = 9
          /\ Bits(result[2])[j].minimum = 3

----------------------------------------------------------------------------
(* C10 *)

\* The path of axis i in a diagnostic.
AxisPath(i) == <<"virtual-device", AbsEntry - 1, "abs", Axes[i][1]>>

\* C10: an axis sub-table that supplies neither `minimum` nor `min`, or
\* neither `maximum` nor `max`, makes the load fail; once the load reaches
\* the bounds of that axis, the diagnostic is the 'missing' one naming that
\* axis key and the bound, the minimum before the maximum.  A 'missing'
\* diagnostic is given for no sub-table that supplies the bound under either
\* spelling, and a table whose axes all supply both loads.
C10_MandatoryBounds ==
    /\ Done =>
          /\ \A i \in 1..Len(Axes) :
                (IsSubTable(Axes[i][2]) /\ ~(HasMinimum(Sub(i)) /\ HasMaximum(Sub(i))))
                    => Failed
          /\ \A i \in 1..Len(Axes) :
                (Reached(i) /\ ~Complete(i) /\ \A j \in 1..(i - 1) : Complete(j))
                    => /\ FailedWith(IF HasMinimum(Sub(i))
                                         THEN FmtMissingMaximum ELSE FmtMissingMinimum)
                       /\ result[2].args = AxisPath(i)
          /\ (Axes # <<>> /\ \A i \in 1..Len(Axes) : Complete(i)) => Loaded
    /\ (FailedWith(FmtMissingMinimum) \/ FailedWith(FmtMissingMaximum)) =>
          \E i \in 1..Len(Axes) :
              /\ result[2].args = AxisPath(i)
              /\ IsSubTable(Axes[i][2])
              /\ FailedWith(FmtMissingMinimum) => ~HasMinimum(Sub(i))
              /\ FailedWith(FmtMissingMaximum) => ~HasMaximum(Sub(i))

\* The second axis, "0xf", gives `min` and no maximum, after a first axis
\* with both bounds: the diagnostic names "0xf" and the maximum.
C10_Witness ==
    /\ FailedWith(FmtMissingMaximum)
    /\ Len(Axes) = 2
    /\ Complete(1)
    /\ result[2].args = <<"virtual-device", 1, "abs", <<"0", "x", "f">>>>
    /\ HasKey(Sub(2), "minimum")

----------------------------------------------------------------------------
(* C7 *)

\* A call that has returned.
Called(fn) == pc = "call" /\ call.fn = fn /\ call.done

\* The symbolic names of the kind a resolver is for.
NamesOf(fn) ==
    CASE fn = "try_into_bus_value" -> BusNames
      [] fn = "try_into_key_value" -> KeyNames
      [] fn = "try_into_rel_value" -> RelNames
      [] fn = "try_into_ff_value" -> FfNames

\* The integer <<w, n>> is a v with 0 <= v <= 0xFFFF.
InU16(i) == i[1] = 0 /\ i[2] \in 0..U16Max

\* C7: for the bus, key, relative-axis and force-feedback resolvers, an
\* integer v with 0 <= v <= 0xFFFF gives the Other variant holding v, any
\* other integer fails, a string gives what the symbolic-name table of the
\* kind gives and fails when it is not there, any other shape fails.
C7_IdentifierResolution ==
    \A fn \in IdentFns :
        Called(fn) =>
            CASE call.arg[1] = "int" ->
                    call.ret = (IF InU16(call.arg[2])
                                    THEN Some(Other(call.arg[2][2])) ELSE None)
              [] call.arg[1] = "str" ->
                    call.ret = (IF call.arg[2] \in NamesOf(fn)
                                    THEN Some(Sym(call.arg[2])) ELSE None)
              [] OTHER -> call.ret = None

\* The key resolver has returned Other( 0xFFFF ) for the integer 0xFFFF.
C7_Witness ==
    /\ Called("try_into_key_value")
    /\ call.arg = VInt(U16Max)
    /\ call.ret = Some(Other(U16Max))

----------------------------------------------------------------------------
(* C8 *)

HexDigits ==
    <<{"0"}, {"1"}, {"2"}, {"3"}, {"4"}, {"5"}, {"6"}, {"7"}, {"8"}, {"9"},
      {"a", "A"}, {"b", "B"}, {"c", "C"}, {"d", "D"}, {"e", "E"}, {"f", "F"}>>

\* The characters that are digits in a radix.
DigitsOf(radix) == UNION { HexDigits[d] : d \in 1..radix }

DigitValue(c) == (CHOOSE d \in 1..16 : c \in HexDigits[d]) - 1

RECURSIVE NumberIn(_, _)
\* The number a string of digits writes, of any size.
NumberIn(digits, radix) ==
    IF digits = <<>> THEN 0
    ELSE NumberIn(SubSeq(digits, 1, Len(digits) - 1), radix) * radix
            + DigitValue(digits[Len(digits)])

AllDigits(string, radix) ==
    string # <<>> /\ \A i \in 1..Len(string) : string[i] \in DigitsOf(radix)

\* The axis of a number that fits in 16 bits; no axis otherwise.
Fits(number) == IF number <= U16Max THEN Some(Other(number)) ELSE None

\* The remainder after "0x", without the "+" that from_str_radix allows.
Unsigned(rest) == IF rest # <<>> /\ rest[1] = "+" THEN Tail(rest) ELSE rest

\* What the three tiers give for a key.
AxisOf(string) ==
    IF string \in AbsNames THEN Some(Sym(string))
    ELSE IF AllDigits(string, 10) THEN Fits(NumberIn(string, 10))
    ELSE IF Len(string) >= 2 /\ SubSeq(string, 1, 2) = <<"0", "x">>
        THEN (IF AllDigits(Unsigned(SubSeq(string, 3, Len(string))), 16)
                THEN Fits(NumberIn(Unsigned(SubSeq(string, 3, Len(string))), 16))
                ELSE None)
    ELSE None

\* C8: try_into_abs_s gives a known symbolic axis; else, for a non-empty
\* string of ASCII digits, the axis of the decimal number when it fits in 16
\* bits; else, for a string starting with "0x", the axis of the hexadecimal
\* number the remainder writes when that has a digit and fits in 16 bits;
\* every other string fails, and so does a number that does not fit, with no
\* wrapping and no later tier.
C8_AxisKeyResolution ==
    Called("try_into_abs_s") => call.ret = AxisOf(call.arg)

\* "0x1f" has been resolved to axis 31.
C8_Witness ==
    /\ Called("try_into_abs_s")
    /\ call.arg = <<"0", "x", "1", "f">>
    /\ call.ret = Some(Other(31))

----------------------------------------------------------------------------
(* C11 *)

\* The keys each table of a section knows.
KnownKeys(section) ==
    CASE section = "device-filter" ->
            {"ref", "name", "bus", "vendor", "not_vendor", "product", "version",
             "kind", "exclusive", "chmod"}
      [] section = "virtual-device" ->
            {"ref", "preset", "bus", "name", "vendor", "product", "version",
             "chmod", "keys", "rel", "force-feedback", "abs",
             "redirect-force-feedback-to"}
      [] section = "script" -> {"device", "script"}

UnknownIn(pairs, keys) == \E i \in 1..Len(pairs) : pairs[i][1] \notin keys

\* The tables written as items of the arrays under a key of the document.
ItemTables(section) ==
    UNION { { Top[i][2][2][j][2] :
                j \in { k \in 1..Len(Top[i][2][2]) : Top[i][2][2][k][1] = "table" } } :
            i \in { k \in 1..Len(Top) : Top[k][1] = section /\ Top[k][2][1] = "array" } }

\* The axis sub-tables written in the `abs` tables of the virtual devices.
AxisTables ==
    UNION { UNION { { pairs[i][2][2][j][2][2] :
                        j \in { k \in 1..Len(pairs[i][2][2]) :
                                    pairs[i][2][2][k][2][1] = "table" } } :
                    i \in { k \in 1..Len(pairs) :
                                pairs[k][1] = "abs" /\ pairs[k][2][1] = "table" } } :
            pairs \in ItemTables("virtual-device") }

UnrecognizedAtTop == UnknownIn(Top, Sections)

UnrecognizedInSection ==
    \E section \in Sections :
        \E pairs \in ItemTables(section) : UnknownIn(pairs, KnownKeys(section))

UnrecognizedInAxis == \E pairs \in AxisTables : UnknownIn(pairs, AxisSubproperties)

\* C11: a document with a key that is not recognized, at the top level, in
\* a table of a section or in an axis sub-table of `abs`, never loads,
\* whatever else the document contains.
C11_ClosedSchema ==
    (Done /\ (UnrecognizedAtTop \/ UnrecognizedInSection \/ UnrecognizedInAxis))
        => Failed

\* A document whose one fault is an unrecognized key of an axis sub-table is
\* refused for that key.
C11_Witness ==
    /\ FailedWith(FmtUnrecognized5)
    /\ UnrecognizedInAxis
    /\ ~UnrecognizedAtTop
    /\ ~UnrecognizedInSection
    /\ pos = Len(Top)

----------------------------------------------------------------------------
(* C12 *)

\* The fields narrowed to 16 bits, by section.
NarrowKeys(section) ==
    IF section = "device-filter"
        THEN {"vendor", "not_vendor", "product", "version", "chmod"}
        ELSE {"vendor", "product", "version", "chmod"}

\* The narrowed fields the document writes: section, position of the table
\* and of the pair in it.
NarrowWritten ==
    { f \in {"device-filter", "virtual-device"} \X (1..MaxEntries) \X (1..MaxEntries) :
        /\ f[2] <= Len(TablesOf(f[1]))
        /\ f[3] <= Len(TablesOf(f[1])[f[2]])
        /\ TablesOf(f[1])[f[2]][f[3]][1] \in NarrowKeys(f[1]) }

KeyAt(f) == TablesOf(f[1])[f[2]][f[3]][1]

WrittenAt(f) == TablesOf(f[1])[f[2]][f[3]][2]

\* The written value is an integer of 0 .. 65535.
FitsU16(value) ==
    value[1] = "int" /\ value[2][1] = 0 /\ value[2][2] \in 0..U16Max

\* What the returned Config holds for the field.
StoredAt(f) ==
    Get(IF f[1] = "device-filter" THEN result[2].device_filters
                                  ELSE result[2].virtual_devices,
        CHOOSE name \in Declared(TablesOf(f[1])[f[2]]) : TRUE)[KeyAt(f)]

\* C12: in a document with no other fault, a field vendor, not_vendor,
\* product, version or chmod loads exactly when its value is an integer of
\* 0 .. 65535, and the Config then holds that integer; any other integer is
\* refused as out of range and is never wrapped, and a value that is no
\* integer is refused as not an integer; both diagnostics name the field.
C12_Narrowing ==
    Done =>
        \A f \in NarrowWritten :
            /\ Loaded <=> FitsU16(WrittenAt(f))
            /\ Loaded => StoredAt(f) = Some(WrittenAt(f)[2][2])
            /\ Failed =>
                  /\ result[2].fmt =
                        IF WrittenAt(f)[1] = "int" THEN FmtOutOfRange ELSE FmtNotInteger
                  /\ result[2].args = <<f[1], f[2] - 1, KeyAt(f)>>

\* An integer one past the range, whose low 16 bits are 0, is refused as out
\* of range.
C12_Witness ==
    \E f \in NarrowWritten :
        /\ FailedWith(FmtOutOfRange)
        /\ WrittenAt(f) = VInt(U16Max + 1)
        /\ KeyAt(f) = "chmod"
        /\ f[1] = "virtual-device"

----------------------------------------------------------------------------
(* C13 *)

\* The diagnostics by the element they are about.
AboutSection == {FmtNotArray, FmtNotTable1, FmtUnrecognized1}

AboutEntry == {FmtNotTable2, FmtMissingRef, FmtMissingDevice, FmtMissingScript}

AboutProperty ==
    {FmtNotTable3, FmtNotArray3, FmtNotString, FmtNotStringQuoted, FmtNotInteger,
     FmtOutOfRange, FmtNotBoolean, FmtInvalidValue, FmtKeyInvalidValue,
     FmtUnrecognized3, FmtInvalidItem, FmtInvalidAxis}

AboutAxis == {FmtNotTable4, FmtMissingMinimum, FmtMissingMaximum}

AboutSubproperty == {FmtNotInteger5, FmtOutOfRange5, FmtUnrecognized5}

AboutReference == {FmtNoSuchFilter, FmtSameName, FmtNoSuchTarget}

\* The number of path components the diagnostic is given.
Depth(fmt) ==
    CASE fmt \in AboutSection -> 1
      [] fmt \in AboutEntry -> 2
      [] fmt \in AboutProperty -> 3
      [] fmt \in AboutAxis -> 4
      [] fmt \in AboutSubproperty -> 5
      [] OTHER -> 0

\* What follows the path: the offending item or axis name.
Detail(fmt) == IF fmt \in {FmtInvalidItem, FmtInvalidAxis} THEN 1 ELSE 0

\* The item the load stopped in, its `abs` table and the axis named.
StoppedItem == Top[pos][2][2][nth + 1]

StoppedAbs == ValueOf(StoppedItem[2], "abs")

StoppedAxis(axis_name) == ValueOf(StoppedAbs[2], axis_name)

\* The first `depth` arguments are the path, in the document, of the element
\* the load stopped at.
Located(args, depth) ==
    /\ depth >= 1
    /\ Len(args) >= depth
    /\ pos <= Len(Top)
    /\ args[1] = Top[pos][1]
    /\ depth >= 2 =>
          /\ args[2] = nth
          /\ Top[pos][2][1] = "array"
          /\ nth < Len(Top[pos][2][2])
    /\ depth >= 3 =>
          /\ StoppedItem[1] = "table"
          /\ HasKey(StoppedItem[2], args[3])
    /\ depth >= 4 =>
          /\ args[3] = "abs"
          /\ StoppedAbs[1] = "table"
          /\ HasKey(StoppedAbs[2], args[4])
    /\ depth >= 5 =>
          /\ StoppedAxis(args[4])[1] = "table"
          /\ HasKey(StoppedAxis(args[4])[2], args[5])

\* The diagnostic spells a path <section>.<array-index>.<property> or longer.
SpellsProperty(fmt) ==
    fmt \in AboutProperty \cup AboutAxis \cup AboutSubproperty
                \cup {FmtMissingDevice, FmtMissingScript}

----------------------------------------------------------------------------
(* C14 *)

\* The collections the checks run over hold what the document declares:
\* the scripts as written, the names of the filters and of the virtual
\* devices, the latter in the order in which the names are first declared.
Completed ==
    /\ Len(scripts) = Len(WrittenScripts)
    /\ \A i \in 1..Len(scripts) :
          StringsOf(WrittenScripts[i], "device") = {scripts[i].device}
    /\ { device_filters[i].key : i \in 1..Len(device_filters) } = FilterNames
    /\ { virtual_devices[i].key : i \in 1..Len(virtual_devices) } = VirtualNames
    /\ InOrderOfNames(virtual_devices, WrittenVirtuals)

NoViolation ==
    /\ NoScriptDangles
    /\ \A i \in 1..Len(virtual_devices) : ~Collides(i) /\ ~TargetDangles(i)

----------------------------------------------------------------------------
(* C15 *)

RECURSIVE ItemsUpTo(_)
\* The number of items of the arrays under the first k keys of the document.
ItemsUpTo(k) == IF k = 0 THEN 0 ELSE ItemsUpTo(k - 1) + Len(Top[k][2][2])

\* The number of items the load has taken into its collections.
Taken == Len(df_hist) + Len(vd_hist) + Len(scripts)

\* Where a load that is over stopped, and with what.
StoppedAtFirst ==
    Done =>
        /\ Failed => DOMAIN result[2] = {"fmt", "args"}
        /\ (Failed /\ ~Validated) =>
              /\ result[2].fmt \notin AboutReference
              /\ Taken = ItemsUpTo(pos - 1) + nth
        /\ Validated =>
              /\ Taken = ItemsUpTo(Len(Top))
              /\ Loaded <=> NoViolation
              /\ Failed => result[2].fmt \in AboutReference
        /\ Loaded =>
              /\ Validated
              /\ result[2] = [device_filters |-> device_filters,
                              virtual_devices |-> virtual_devices,
                              scripts |-> scripts]

\* C15: the load ends at the first violation: nothing is done once a result
\* is returned, a failed load has taken exactly the items before the one it
\* failed in and returns a diagnostic and no Config; the cross-reference
\* checks run once, after every section is parsed, over the completed
\* collections, so that a reference to a filter declared in a later section
\* is no violation.
C15_FailFast == [](StoppedAtFirst) /\ [][pc # "done"]_vars

\* The scripts, written first, name a filter declared in the last section;
\* the load fails in the second virtual device, before any filter is read.
C15_Witness ==
    /\ Failed
    /\ Top[1][1] = "script"
    /\ pos = 2
    /\ nth = 1
    /\ scripts # <<>>
    /\ device_filters = <<>>
    /\ Len(Top) = 3
    /\ scripts[1].device \in FilterNames

----------------------------------------------------------------------------
(* C16 *)

\* The strings a filter gives as `name` next to a `ref`, that no filter
\* declares as its internal name.
DisplayOnly ==
    UNION { StringsOf(WrittenFilters[i], "name") :
                i \in { j \in 1..Len(WrittenFilters) : HasKey(WrittenFilters[j], "ref") } }
        \ FilterNames

============================================================================
